---- MODULE Spec2Model ----
(***************************************************************************)
(* Model of run_professional_lbm_simulation, the D2Q9 lattice-Boltzmann    *)
(* wind solver of src/colab/wind_simulation_module.py (lines 307-418), of  *)
(* its prange sweeps run row by row, and of the processing of its results  *)
(* (_process_simulation_results, lines 556-607).                           *)
(*                                                                         *)
(* Numbers.  The code computes in IEEE doubles.  The model computes in     *)
(* fixed point: a real x is held as the integer nearest to x * ONE, and    *)
(* every product and quotient is rounded to the nearest representable      *)
(* value (Mul, Div), as a floating-point unit rounds each operation.       *)
(* Sums, differences and products by 0, 1 and -1 are exact.  ONE is a      *)
(* multiple of 36 and of 10, so the lattice weights 4/9, 1/9, 1/36, the    *)
(* inlet speed 0.1 and the factors 3, 4.5 and 1.5 are held exactly.        *)
(*                                                                         *)
(* Arrays.  A population array is a function j -> i -> k -> number.  The   *)
(* code's names F and F_streamed are references to two arrays; the model   *)
(* keeps the arrays in a heap (arr) and the references in F, F_streamed,   *)
(* so that the buffer swap exchanges references and copies nothing.        *)
(***************************************************************************)
EXTENDS Integers, FiniteSets, Sequences, TLC

\* ------------------------------------------------------------------ bounds
\* Largest grid dimension explored (grids are ny x nx with ny, nx <= MaxN).
MaxN == 4
\* Largest iteration count explored.
MaxIter == 2

\* --------------------------------------------------------------- numbers
\* Fixed-point representation of 1.0.
ONE == 36 * 100

\* Product of two fixed-point numbers, rounded to nearest: a * b / ONE,
\* computed from the whole and fractional parts of a and b.
Mul(a, b) ==
  LET qa == a \div ONE
      ra == a % ONE
      qb == b \div ONE
      rb == b % ONE
  IN  qa * qb * ONE + qa * rb + ra * qb + (2 * ra * rb + ONE) \div (2 * ONE)

\* Quotient of two fixed-point numbers (b > 0), rounded to nearest.
Div(a, b) == (2 * a * ONE + b) \div (2 * b)

Abs(a) == IF a < 0 THEN -a ELSE a

\* cos of a whole number of degrees (a multiple of 15), in fixed point.
CosTab ==
  [a \in {0, 15, 30, 45, 60, 75, 90} |->
     CASE a = 0  -> 3600
       [] a = 15 -> 3477
       [] a = 30 -> 3118
       [] a = 45 -> 2546
       [] a = 60 -> 1800
       [] a = 75 -> 932
       [] a = 90 -> 0]

CosDeg(d) ==
  LET a == d % 360
  IN  IF a <= 90 THEN CosTab[a]
      ELSE IF a <= 180 THEN -CosTab[180 - a]
      ELSE IF a <= 270 THEN -CosTab[a - 180]
      ELSE CosTab[360 - a]

SinDeg(d) == CosDeg(d - 90)

\* ------------------------------------------------------ lattice constants
Dirs == 0..8

\* c = [[0,0],[1,0],[0,1],[-1,0],[0,-1],[1,1],[-1,1],[-1,-1],[1,-1]]
c == [k \in Dirs |->
        CASE k = 0 -> <<0, 0>>
          [] k = 1 -> <<1, 0>>
          [] k = 2 -> <<0, 1>>
          [] k = 3 -> <<-1, 0>>
          [] k = 4 -> <<0, -1>>
          [] k = 5 -> <<1, 1>>
          [] k = 6 -> <<-1, 1>>
          [] k = 7 -> <<-1, -1>>
          [] k = 8 -> <<1, -1>>]

cx(k) == c[k][1]
cy(k) == c[k][2]
c_x(k) == cx(k) * ONE
c_y(k) == cy(k) * ONE

\* Mutant: one weight for all nine directions.
w_Uniform(k) == ONE \div 9

\* w = [4/9, 1/9 x 4, 1/36 x 4]
w(k) == IF k = 0 THEN (4 * ONE) \div 9
        ELSE IF k <= 4 THEN ONE \div 9
        ELSE ONE \div 36

inlet_velocity_magnitude == ONE \div 10

\* The density threshold 1e-12 of the zero-velocity fallback, in fixed point
\* (below the resolution 1/ONE, so it is held as 0).
RhoThreshold == (ONE \div 1000000) \div 1000000

Sum9(g) == g[0] + g[1] + g[2] + g[3] + g[4] + g[5] + g[6] + g[7] + g[8]

RECURSIVE SumTo(_, _)
SumTo(f, n) == IF n < 0 THEN 0 ELSE f[n] + SumTo(f, n - 1)

\* ------------------------------------------------------------------ state
VARIABLES
  obstacle_mask,    \* j -> i -> BOOLEAN, as supplied by the caller
  wind_speed,       \* fixed point
  wind_deg,         \* whole degrees
  nx, ny,           \* grid width and height
  max_iter,
  relaxation_rate,  \* fixed point
  arr,              \* heap: array id -> population array
  F, F_streamed,    \* references (array ids)
  rho, ux, uy,      \* j -> i -> number
  it,               \* iterations completed
  pc,               \* the next phase to execute
  result,           \* <<>> until the function returns, then [ux_real, uy_real]
  config,           \* the pipeline's configuration (WindSimulationConfig)
  core_magnitude,   \* _process_simulation_results: the statistics' slice
  vector_field,     \* _process_simulation_results: the list of samples
  results,          \* <<>>, then the dictionary returned or the error raised
  previous,         \* <<>>, then what an earlier run of the solver returned
  pending,          \* rows whose worker has not yet run in the current sweep
  snap,             \* the arrays as they were when the current sweep began
  accesses          \* row -> the elements its worker read and wrote

\* The pipeline's state around the solver, and the state of the row workers.
processing == <<config, core_magnitude, vector_field, results, previous>>
workers == <<pending, snap, accesses>>

vars == <<obstacle_mask, wind_speed, wind_deg, nx, ny, max_iter,
          relaxation_rate, arr, F, F_streamed, rho, ux, uy, it, pc, result,
          processing, workers>>

inputs == <<obstacle_mask, wind_speed, wind_deg, nx, ny, max_iter,
            relaxation_rate>>

Rows == 0..(ny - 1)
Cols == 0..(nx - 1)

\* np.ones / np.zeros / np.empty
Filled3(h, wd, v) == [j \in 0..(h - 1) |-> [i \in 0..(wd - 1) |-> [k \in Dirs |-> v]]]
Filled2(h, wd, v) == [j \in 0..(h - 1) |-> [i \in 0..(wd - 1) |-> v]]

\* Wind direction conversion (meteorological to mathematical)
vel_x_sim == Mul(CosDeg(90 - wind_deg), inlet_velocity_magnitude)
vel_y_sim == Mul(SinDeg(90 - wind_deg), inlet_velocity_magnitude)

\* ------------------------------------------------------------- the phases
\* Mutant: the loop stops one iteration early.
LoopContinues_OffByOne(done, limit) == done + 1 < limit

\* for it in range(max_iter)
LoopContinues(done, limit) == done < limit

\* Mutant: populations are pulled from the downstream neighbour.
SourceIndex_Downstream(j, cdir, n) == (j + cdir) % n

\* Streaming: the periodic source index of line 344-348.
SourceIndex(j, cdir, n) ==
  LET s == j - cdir
  IN  IF s < 0 THEN s + n ELSE IF s >= n THEN s - n ELSE s

Streamed(src) ==
  [j \in Rows |-> [i \in Cols |-> [k \in Dirs |->
     src[SourceIndex(j, cy(k), ny)][SourceIndex(i, cx(k), nx)][k]]]]

\* tmp = F; F = F_streamed; F_streamed = tmp: the new <<F, F_streamed>>.
SwapBuffers(a, b) == <<b, a>>

\* Mutant: the swap without temporaries (the second assignment reads the
\* value the first has just written).
BounceCell_NoTemporaries(f) ==
  [f EXCEPT ![1] = f[3], ![2] = f[4], ![5] = f[7], ![6] = f[8]]

\* Bounce-back of one cell's populations.
BounceCell(f) ==
  [f EXCEPT ![1] = f[3], ![3] = f[1],
            ![2] = f[4], ![4] = f[2],
            ![5] = f[7], ![7] = f[5],
            ![6] = f[8], ![8] = f[6]]

BounceBack(A) ==
  [j \in Rows |-> [i \in Cols |->
     IF obstacle_mask[j][i] THEN BounceCell(A[j][i]) ELSE A[j][i]]]

\* Mutant: only the top row is copied.
OutflowRows_TopOnly(A) ==
  [j \in Rows |-> [i \in Cols |-> [k \in Dirs |->
     IF j = 0 THEN A[1][i][k] ELSE A[j][i][k]]]]

\* Outflow, first loop: F[0,i,k], F[ny-1,i,k] = F[1,i,k], F[ny-2,i,k]
OutflowRows(A) ==
  [j \in Rows |-> [i \in Cols |-> [k \in Dirs |->
     IF j = ny - 1 THEN A[ny - 2][i][k]
     ELSE IF j = 0 THEN A[1][i][k]
     ELSE A[j][i][k]]]]

\* Outflow, second loop: F[j,0,k], F[j,nx-1,k] = F[j,1,k], F[j,nx-2,k]
OutflowCols(A) ==
  [j \in Rows |-> [i \in Cols |-> [k \in Dirs |->
     IF i = nx - 1 THEN A[j][nx - 2][k]
     ELSE IF i = 0 THEN A[j][1][k]
     ELSE A[j][i][k]]]]

Outflow(A) == OutflowCols(OutflowRows(A))

\* Mutant: only a density of exactly zero is guarded against.
HasDensity_Nonzero(s_rho) == s_rho # 0

\* Macroscopic variables of one cell: <<rho, ux, uy>>.
HasDensity(s_rho) == s_rho > RhoThreshold

MacroCell(f) ==
  LET s_rho == Sum9(f)
      s_ux  == Sum9([k \in Dirs |-> Mul(f[k], c_x(k))])
      s_uy  == Sum9([k \in Dirs |-> Mul(f[k], c_y(k))])
  IN  IF HasDensity(s_rho)
      THEN <<s_rho, Div(s_ux, s_rho), Div(s_uy, s_rho)>>
      ELSE <<s_rho, 0, 0>>

\* Mutant: the sectors are closed at their upper end.
InletEdge_Closed(deg) ==
  IF deg > 315 \/ deg <= 45 THEN "row0"
  ELSE IF deg > 45 /\ deg <= 135 THEN "colLast"
  ELSE IF deg > 135 /\ deg <= 225 THEN "rowLast"
  ELSE "col0"

\* Inflow: the edge the wind direction selects.
InletEdge(deg) ==
  IF deg >= 315 \/ deg < 45 THEN "row0"
  ELSE IF deg >= 45 /\ deg < 135 THEN "colLast"
  ELSE IF deg >= 135 /\ deg < 225 THEN "rowLast"
  ELSE "col0"

OnInlet(j, i) ==
  LET e == InletEdge(wind_deg)
  IN  \/ e = "row0" /\ j = 0
      \/ e = "colLast" /\ i = nx - 1
      \/ e = "rowLast" /\ j = ny - 1
      \/ e = "col0" /\ i = 0

\* Mutant: obstacle cells of the edge are not forced.
Inflow_FluidOnly(u, v) ==
  [j \in Rows |-> [i \in Cols |->
     IF OnInlet(j, i) /\ ~obstacle_mask[j][i] THEN v ELSE u[j][i]]]

Inflow(u, v) == [j \in Rows |-> [i \in Cols |-> IF OnInlet(j, i) THEN v ELSE u[j][i]]]

\* Mutant: the sign of the 1.5 usq term is wrong.
Equilibrium_PlusUsq(r, u, v, k) ==
  LET usq == Mul(u, u) + Mul(v, v)
      cu  == Mul(u, c_x(k)) + Mul(v, c_y(k))
  IN  Mul(Mul(r, w(k)),
          ONE + Mul(3 * ONE, cu) + Mul(Mul((9 * ONE) \div 2, cu), cu)
              + Mul((3 * ONE) \div 2, usq))

\* Collision of one cell.
Equilibrium(r, u, v, k) ==
  LET usq == Mul(u, u) + Mul(v, v)
      cu  == Mul(u, c_x(k)) + Mul(v, c_y(k))
  IN  Mul(Mul(r, w(k)),
          ONE + Mul(3 * ONE, cu) + Mul(Mul((9 * ONE) \div 2, cu), cu)
              - Mul((3 * ONE) \div 2, usq))

Relax(f, eq, omega) == f + Mul(omega, eq - f)

Collided(A) ==
  [j \in Rows |-> [i \in Cols |-> [k \in Dirs |->
     Relax(A[j][i][k], Equilibrium(rho[j][i], ux[j][i], uy[j][i], k),
           relaxation_rate)]]]

\* Mutant: the wind speed itself is the scale.
ScaleFactor_NoReference == wind_speed

\* Scale to real values.
ScaleFactor == Div(wind_speed, inlet_velocity_magnitude)
Scaled(u) == [j \in Rows |-> [i \in Cols |-> Mul(u[j][i], ScaleFactor)]]

\* ----------------------------------------------------------------- inputs
Mask(h, wd, obst) == [j \in 0..(h - 1) |-> [i \in 0..(wd - 1) |-> <<j, i>> \in obst]]

ObstacleSets == { {}, {<<1, 1>>}, {<<0, 0>>, <<1, 2>>} }

ValidDirections == {0, 30, 45, 90, 135, 180, 225, 270, 315}

ValidInputs ==
  [ny : 3..MaxN, nx : 3..MaxN, mh : {0}, mw : {0}, obst : ObstacleSets,
   deg : ValidDirections, speed : {0, 5 * ONE},
   omega : {ONE, (7 * ONE) \div 5}, iters : 1..MaxIter]

BaseInput ==
  [ny |-> 3, nx |-> 3, mh |-> 0, mw |-> 0, obst |-> {<<1, 1>>}, deg |-> 270,
   speed |-> 5 * ONE, omega |-> (7 * ONE) \div 5, iters |-> MaxIter]

\* Inputs the interface forbids (grid too small, mask of another shape,
\* relaxation rate outside (0,2), negative speed, direction outside [0,360)),
\* which the function can nevertheless be called with.
InvalidInputs ==
  { [BaseInput EXCEPT !.ny = 2], [BaseInput EXCEPT !.nx = 2],
    [BaseInput EXCEPT !.mh = 1, !.mw = 1],
    [BaseInput EXCEPT !.omega = 0], [BaseInput EXCEPT !.omega = 2 * ONE],
    [BaseInput EXCEPT !.omega = (5 * ONE) \div 2],
    [BaseInput EXCEPT !.speed = -ONE],
    [BaseInput EXCEPT !.deg = 360], [BaseInput EXCEPT !.deg = -15] }

Inputs == ValidInputs \cup InvalidInputs

\* Contents an uninitialised (np.empty) array may hold.
Garbage == {0, -1}

\* The configuration's defaults that the result processing reads.
BUFFER_SIZE == 50
OUTPUT_PRECISION == 4
VECTOR_FIELD_STRIDE == 5
WindSimulationConfig ==
  [BUFFER_SIZE |-> BUFFER_SIZE, OUTPUT_PRECISION |-> OUTPUT_PRECISION,
   VECTOR_FIELD_STRIDE |-> VECTOR_FIELD_STRIDE]

\* The state after the set-up of lines 311-336: A0 is what the current
\* population array holds and p0 the phase the run is at.
Setup(inp, A0, p0, g) ==
  /\ ny = inp.ny
  /\ nx = inp.nx
  /\ obstacle_mask = Mask(inp.ny + inp.mh, inp.nx + inp.mw, inp.obst)
  /\ wind_deg = inp.deg
  /\ wind_speed = inp.speed
  /\ relaxation_rate = inp.omega
  /\ max_iter = inp.iters
  /\ arr = [a \in {1, 2} |-> IF a = 1 THEN A0 ELSE Filled3(inp.ny, inp.nx, g)]
  /\ F = 1
  /\ F_streamed = 2
  /\ rho = Filled2(inp.ny, inp.nx, g)
  /\ ux = Filled2(inp.ny, inp.nx, 0)
  /\ uy = Filled2(inp.ny, inp.nx, 0)
  /\ it = 0
  /\ pc = p0
  /\ result = <<>>
  /\ config = WindSimulationConfig
  /\ core_magnitude = <<>>
  /\ vector_field = <<>>
  /\ results = <<>>
  /\ previous = <<>>
  /\ pending = 0..(inp.ny - 1)
  /\ snap = <<>>
  /\ accesses = <<>>

Init ==
  \E inp \in Inputs, g \in Garbage :
    Setup(inp, Filled3(inp.ny, inp.nx, ONE),
          IF LoopContinues(0, inp.iters) THEN "stream" ELSE "scale", g)

\* ---------------------------------------------------------------- actions
Streaming ==
  /\ pc = "stream"
  /\ arr' = [arr EXCEPT ![F_streamed] = Streamed(arr[F])]
  /\ F' = SwapBuffers(F, F_streamed)[1]
  /\ F_streamed' = SwapBuffers(F, F_streamed)[2]
  /\ pc' = "bounce"
  /\ UNCHANGED <<inputs, rho, ux, uy, it, result>>
  /\ UNCHANGED <<processing, workers>>

BounceBackStep ==
  /\ pc = "bounce"
  /\ arr' = [arr EXCEPT ![F] = BounceBack(arr[F])]
  /\ pc' = "outflow"
  /\ UNCHANGED <<inputs, F, F_streamed, rho, ux, uy, it, result>>
  /\ UNCHANGED <<processing, workers>>

OutflowStep ==
  /\ pc = "outflow"
  /\ arr' = [arr EXCEPT ![F] = Outflow(arr[F])]
  /\ pc' = "macro"
  /\ UNCHANGED <<inputs, F, F_streamed, rho, ux, uy, it, result>>
  /\ UNCHANGED <<processing, workers>>

Macroscopic ==
  /\ pc = "macro"
  /\ rho' = [j \in Rows |-> [i \in Cols |-> MacroCell(arr[F][j][i])[1]]]
  /\ ux' = [j \in Rows |-> [i \in Cols |-> MacroCell(arr[F][j][i])[2]]]
  /\ uy' = [j \in Rows |-> [i \in Cols |-> MacroCell(arr[F][j][i])[3]]]
  /\ pc' = "inflow"
  /\ UNCHANGED <<inputs, arr, F, F_streamed, it, result>>
  /\ UNCHANGED <<processing, workers>>

InflowStep ==
  /\ pc = "inflow"
  /\ ux' = Inflow(ux, vel_x_sim)
  /\ uy' = Inflow(uy, vel_y_sim)
  /\ pc' = "collide"
  /\ UNCHANGED <<inputs, arr, F, F_streamed, rho, it, result>>
  /\ UNCHANGED <<processing, workers>>

Collision ==
  /\ pc = "collide"
  /\ arr' = [arr EXCEPT ![F] = Collided(arr[F])]
  /\ it' = it + 1
  /\ pc' = IF LoopContinues(it + 1, max_iter) THEN "stream" ELSE "scale"
  /\ UNCHANGED <<inputs, F, F_streamed, rho, ux, uy, result>>
  /\ UNCHANGED <<processing, workers>>

ScaleStep ==
  /\ pc = "scale"
  /\ result' = [ux_real |-> Scaled(ux), uy_real |-> Scaled(uy)]
  /\ pc' = "done"
  /\ UNCHANGED <<inputs, arr, F, F_streamed, rho, ux, uy, it>>
  /\ UNCHANGED <<processing, workers>>

Next ==
  \/ Streaming
  \/ BounceBackStep
  \/ OutflowStep
  \/ Macroscopic
  \/ InflowStep
  \/ Collision
  \/ ScaleStep

\* The solver run by itself: a sweep is one step, nothing is post-processed.
Spec == Init /\ [][Next]_vars

\* Runs whose densities degenerate.  The function accepts any relaxation
\* rate; with rate 25 and wind from 90 degrees (inlet on the last column,
\* blowing outwards) the second iteration finds negative densities in the
\* column next to the inlet.  Runs at the default rate are explored with them.
DegenerateInputs ==
  [ny : 3..MaxN, nx : {4}, mh : {0}, mw : {0}, obst : {{}, {<<1, 1>>}},
   deg : {90}, speed : {0, 5 * ONE}, omega : {(7 * ONE) \div 5, 25 * ONE},
   iters : {2}]

InitDegenerate ==
  \E inp \in DegenerateInputs, g \in Garbage :
    Setup(inp, Filled3(inp.ny, inp.nx, ONE), "stream", g)

SpecDegenerate == InitDegenerate /\ [][Next]_vars

\* ------------------------------------------------------------------ claims
Phases == {"stream", "bounce", "outflow", "macro", "inflow", "collide"}

ValidGrid == ny >= 3 /\ nx >= 3

\* C1: every iteration executes Streaming, Bounce-back, Outflow, macroscopic
\* recompute, Inflow, Collision in exactly this order, one phase at a time,
\* and the loop runs exactly max_iter times: whether another iteration
\* follows a collision depends on the iteration count alone, the scaling
\* starts only after max_iter iterations, and no phase is ever skipped.
C1_PhaseOrder ==
  /\ [][/\ (pc = "stream" => pc' = "bounce" /\ it' = it)
        /\ (pc = "bounce" => pc' = "outflow" /\ it' = it)
        /\ (pc = "outflow" => pc' = "macro" /\ it' = it)
        /\ (pc = "macro" => pc' = "inflow" /\ it' = it)
        /\ (pc = "inflow" => pc' = "collide" /\ it' = it)
        /\ (pc = "collide" =>
              /\ it' = it + 1
              /\ pc' = IF it + 1 < max_iter THEN "stream" ELSE "scale")
        /\ (pc = "scale" => pc' = "done" /\ it' = it)
        /\ max_iter' = max_iter]_vars
  /\ [](pc \in Phases => it < max_iter)
  /\ [](pc \in {"scale", "done"} => it = max_iter)

C1_Witness == pc = "done" /\ max_iter >= 2 /\ it = max_iter

\* C2: on a grid with ny, nx >= 3 the streaming step with its buffer swap
\* leaves the current buffer with F_new[j,i,k] = F_old[(j - cy[k]) mod ny,
\* (i - cx[k]) mod nx, k]; the step writes the staging array only (the array
\* that was current is left as it was), the swap exchanges the two
\* references, and the two references never name the same array.
C2_StreamingShift ==
  /\ [][pc = "stream" /\ ValidGrid =>
          /\ F' = F_streamed
          /\ F_streamed' = F
          /\ arr'[F] = arr[F]
          /\ \A j \in Rows, i \in Cols, k \in Dirs :
               arr'[F'][j][i][k] =
                 arr[F][(j - c[k][2]) % ny][(i - c[k][1]) % nx][k]]_vars
  /\ [](F # F_streamed)

\* Streaming has run in the second iteration and moved a population that
\* differs from the one it replaced.
C2_Witness ==
  /\ pc = "bounce" /\ it = 1 /\ ValidGrid
  /\ \E j \in Rows, i \in Cols, k \in Dirs :
       arr[F][j][i][k] # arr[F_streamed][j][i][k]

\* C3: bounce-back exchanges the populations of the direction pairs (1,3),
\* (2,4), (5,7), (6,8) of every obstacle cell and leaves its direction 0
\* unchanged; it leaves every non-obstacle cell unchanged, and the obstacle
\* mask never changes.
C3_BounceBack ==
  /\ [][pc = "bounce" =>
          \A j \in Rows, i \in Cols :
            LET old == arr[F][j][i]
                new == arr'[F'][j][i]
            IN  IF obstacle_mask[j][i]
                THEN /\ new[0] = old[0]
                     /\ new[1] = old[3] /\ new[3] = old[1]
                     /\ new[2] = old[4] /\ new[4] = old[2]
                     /\ new[5] = old[7] /\ new[7] = old[5]
                     /\ new[6] = old[8] /\ new[8] = old[6]
                ELSE new = old]_vars
  /\ [][obstacle_mask' = obstacle_mask]_vars

\* Bounce-back has run on an obstacle cell whose opposite populations differ.
C3_Witness ==
  /\ pc = "outflow"
  /\ \E j \in Rows, i \in Cols :
       /\ obstacle_mask[j][i]
       /\ arr[F][j][i][1] # arr[F][j][i][3]
       /\ arr[F][j][i][5] # arr[F][j][i][7]

\* C4: on a grid with ny, nx >= 3, after the outflow step row 0 equals row 1,
\* row ny-1 equals row ny-2, column 0 equals column 1 and column nx-1 equals
\* column nx-2 in all 9 directions (corners included), and no cell off the
\* four edges is modified.
C4_Outflow ==
  [][pc = "outflow" /\ ValidGrid =>
       LET old == arr[F]
           new == arr'[F']
       IN  /\ \A i \in Cols : new[0][i] = new[1][i] /\ new[ny - 1][i] = new[ny - 2][i]
           /\ \A j \in Rows : new[j][0] = new[j][1] /\ new[j][nx - 1] = new[j][nx - 2]
           /\ \A j \in 1..(ny - 2), i \in 1..(nx - 2) : new[j][i] = old[j][i]]_vars

\* Outflow has run on a lattice whose top and bottom rows differ.
C4_Witness ==
  /\ pc = "macro" /\ it = 1 /\ ValidGrid
  /\ \E i \in Cols : arr[F][0][i] # arr[F][ny - 1][i]

\* The edge the claimed sector table selects for wind_deg.
C5_Edge(j, i) ==
  IF (315 <= wind_deg /\ wind_deg < 360) \/ (0 <= wind_deg /\ wind_deg < 45) THEN j = 0
  ELSE IF 45 <= wind_deg /\ wind_deg < 135 THEN i = nx - 1
  ELSE IF 135 <= wind_deg /\ wind_deg < 225 THEN j = ny - 1
  ELSE i = 0

\* C5: for every direction in [0,360) the inflow step sets (ux,uy) of exactly
\* the cells of one edge to the inlet velocity and changes no other cell:
\* row 0 for [315,360) and [0,45), column nx-1 for [45,135), row ny-1 for
\* [135,225), column 0 for [225,315).
C5_InflowEdge ==
  [][pc = "inflow" /\ 0 <= wind_deg /\ wind_deg < 360 =>
       \A j \in Rows, i \in Cols :
         IF C5_Edge(j, i)
         THEN ux'[j][i] = vel_x_sim /\ uy'[j][i] = vel_y_sim
         ELSE ux'[j][i] = ux[j][i] /\ uy'[j][i] = uy[j][i]]_vars

\* Inflow has run for a direction on a sector boundary (45 degrees): the last
\* column holds the inlet velocity and a cell of row 0 off that column does not.
C5_Witness ==
  /\ pc = "collide" /\ wind_deg = 45
  /\ \A j \in Rows : ux[j][nx - 1] = vel_x_sim /\ uy[j][nx - 1] = vel_y_sim
  /\ ux[0][0] # vel_x_sim

\* Input the interface forbids.
InvalidInput ==
  \/ ny < 3
  \/ nx < 3
  \/ DOMAIN obstacle_mask # 0..(ny - 1)
  \/ DOMAIN obstacle_mask[0] # 0..(nx - 1)
  \/ relaxation_rate <= 0
  \/ relaxation_rate >= 2 * ONE
  \/ wind_speed < 0
  \/ wind_deg < 0
  \/ wind_deg >= 360

\* C6: a run with invalid input (ny < 3 or nx < 3, a mask whose shape is not
\* (ny, nx), relaxation_rate outside (0,2), negative wind_speed, direction
\* outside [0,360)) executes no phase of the loop and returns nothing.
C6_InvalidRejected ==
  InvalidInput => pc \notin {"bounce", "outflow", "macro", "inflow", "collide", "scale", "done"}

\* Total density of a population array.
TotalDensity(A) ==
  SumTo([j \in Rows |-> SumTo([i \in Cols |-> Sum9(A[j][i])], nx - 1)], ny - 1)

NoObstacles == \A j \in Rows, i \in Cols : ~obstacle_mask[j][i]

\* What rounding may add to or take from one cell's density in one collision
\* (0.02, against a density of about 9).
DensityTolerance == ONE \div 50

\* C7 (as claimed): with an all-false obstacle mask the total density at the
\* end of every iteration is the total density at its start, so after any
\* number of iterations it is the initial total 9 * ny * nx (up to the
\* rounding of the collisions done so far).
C7_MassConserved ==
  NoObstacles /\ ~InvalidInput /\ pc \in {"stream", "scale", "done"} =>
    Abs(TotalDensity(arr[F]) - 9 * ONE * ny * nx) <= it * ny * nx * DensityTolerance

\* C7 (amended): with an all-false obstacle mask the streaming, bounce-back,
\* recompute and inflow phases leave the total density exactly unchanged and
\* the collision phase leaves the density of every cell unchanged up to
\* rounding; only the outflow phase, which overwrites the edge rows and
\* columns with copies of their neighbours, changes the total.
C7_MassByPhase ==
  [][NoObstacles =>
       /\ (pc \in {"stream", "bounce", "macro", "inflow"} =>
             TotalDensity(arr'[F']) = TotalDensity(arr[F]))
       /\ (pc = "collide" =>
             \A j \in Rows, i \in Cols :
               Abs(Sum9(arr'[F'][j][i]) - Sum9(arr[F][j][i])) <= DensityTolerance)]_vars

\* An obstacle-free valid run in which the outflow step has changed the total
\* density by more than a full unit, and the iteration then completed.
C7_Witness ==
  /\ NoObstacles /\ ~InvalidInput
  /\ pc \in {"stream", "scale"} /\ it = 2
  /\ Abs(TotalDensity(arr[F]) - 9 * ONE * ny * nx) > ONE

\* A cell at rest holding F_k = 1 in all nine directions.
RestCell(j, i) ==
  /\ ux[j][i] = 0 /\ uy[j][i] = 0
  /\ \A k \in Dirs : arr[F][j][i][k] = ONE

\* C9 (as claimed): the initial state F_k = 1 is an equilibrium, so the
\* collision step leaves a zero-velocity cell holding F_k = 1 unchanged.
C9_RestIsEquilibrium ==
  [][pc = "collide" /\ ~InvalidInput =>
       \A j \in Rows, i \in Cols :
         RestCell(j, i) => arr'[F'][j][i] = arr[F][j][i]]_vars

\* C9 (amended): the lattice is initialised once, to F_k = 1 in all nine
\* directions of all cells; that state is not an equilibrium: at a
\* zero-velocity cell holding F_k = 1 the collision computes
\* feq_k = 9 w_k = (4, 1, 1, 1, 1, 1/4, 1/4, 1/4, 1/4) and moves the cell to
\* F_k + relaxation_rate * (9 w_k - 1).
C9_RestRelaxes ==
  /\ [](it = 0 /\ pc = "stream" =>
          \A j \in Rows, i \in Cols, k \in Dirs : arr[F][j][i][k] = ONE)
  /\ [][pc = "collide" =>
          \A j \in Rows, i \in Cols :
            RestCell(j, i) =>
              \A k \in Dirs :
                arr'[F'][j][i][k] =
                  ONE + Mul(relaxation_rate,
                            (IF k = 0 THEN 4 * ONE ELSE IF k <= 4 THEN ONE ELSE ONE \div 4)
                              - ONE)]_vars

\* The first collision has acted on a rest cell: its rest population has
\* become 1 + 3 * relaxation_rate.
C9_Witness ==
  /\ it = 1 /\ pc \in {"stream", "scale"} /\ relaxation_rate > 0
  /\ \E j \in Rows, i \in Cols :
       /\ arr[F][j][i][0] = ONE + 3 * relaxation_rate
       /\ arr[F][j][i][1] = ONE

\* C10: the recompute gives every cell rho = the sum of its 9 populations;
\* a cell whose rho is at most the threshold gets velocity (0,0) and a cell
\* above it gets (sum F_k cx_k / rho, sum F_k cy_k / rho); whatever the
\* densities, the recompute is executed and the run goes on to the inflow step.
C10_Recompute ==
  /\ [][pc = "macro" =>
          /\ pc' = "inflow"
          /\ \A j \in Rows, i \in Cols :
               LET f == arr[F][j][i]
                   s == f[0] + f[1] + f[2] + f[3] + f[4] + f[5] + f[6] + f[7] + f[8]
               IN  /\ rho'[j][i] = s
                   /\ IF s <= RhoThreshold
                      THEN ux'[j][i] = 0 /\ uy'[j][i] = 0
                      ELSE /\ ux'[j][i] = Div(f[1] - f[3] + f[5] - f[6] - f[7] + f[8], s)
                           /\ uy'[j][i] = Div(f[2] - f[4] + f[5] + f[6] - f[7] - f[8], s)]_vars
  /\ [](pc = "macro" => ENABLED Macroscopic)

\* The recompute of the second iteration of a run with relaxation rate 25
\* has found cells of negative density that carry momentum, and left them at
\* velocity (0,0), next to cells of density 9 whose velocity it computed by
\* division.
C10_Witness ==
  /\ pc = "inflow"
  /\ it = 1
  /\ relaxation_rate = 25 * ONE
  /\ \E j \in Rows, i \in Cols :
       /\ rho[j][i] < 0
       /\ rho[j][i] = Sum9(arr[F][j][i])
       /\ arr[F][j][i][1] # arr[F][j][i][3]
       /\ ux[j][i] = 0 /\ uy[j][i] = 0
  /\ \E j \in Rows, i \in Cols : rho[j][i] = 9 * ONE

\* ------------------------------------------------------ result processing
\* WindSimulationPipeline._process_simulation_results (lines 556-607): the
\* statistics' slice, the vector field and the dictionary returned, computed
\* from the velocity fields ux, uy the solver returned and the obstacle mask.

\* Largest stride explored besides the configuration's default.
MaxStride == 3

Min(a, b) == IF a < b THEN a ELSE b
Max(a, b) == IF a > b THEN a ELSE b

\* The largest r in lo..hi with r * r <= n.
RECURSIVE SqrtSearch(_, _, _)
SqrtSearch(n, lo, hi) ==
  IF lo >= hi THEN lo
  ELSE LET mid == (lo + hi + 1) \div 2
       IN  IF mid * mid <= n THEN SqrtSearch(n, mid, hi)
           ELSE SqrtSearch(n, lo, mid - 1)

\* The square root of ONE.
RootONE == 6 * 10

\* np.sqrt in fixed point, rounded to nearest: the integer nearest to the
\* root of a * ONE.  With q the whole part of the root of a, the root of
\* a * ONE lies in RootONE * q .. RootONE * q + RootONE - 1; t is its offset.
Sqrt(a) ==
  LET q == SqrtSearch(a, 0, 46340)
      d == ONE * (a - q * q)
      t == CHOOSE x \in 0..(RootONE - 1) :
             /\ 2 * RootONE * q * x + x * x <= d
             /\ \A y \in (x + 1)..(RootONE - 1) : 2 * RootONE * q * y + y * y > d
      r == RootONE * q + t
  IN  IF d - 2 * RootONE * q * t - t * t > r THEN r + 1 ELSE r

RECURSIVE Pow10(_)
Pow10(p) == IF p = 0 THEN 1 ELSE 10 * Pow10(p - 1)

\* round(v, p): the nearest multiple of 10^-p, held as a count of them.
Round(v, p) == (2 * v * Pow10(p) + ONE) \div (2 * ONE)

magnitude ==
  [j \in Rows |-> [i \in Cols |->
     Sqrt(Mul(ux[j][i], ux[j][i]) + Mul(uy[j][i], uy[j][i]))]]

\* The indices a[start:stop] selects on an axis of length n (a negative
\* bound counts from the end; -0 is 0 and counts from the start).
SliceIndices(n, start, stop) ==
  LET lo == IF start < 0 THEN Max(n + start, 0) ELSE Min(start, n)
      hi == IF stop < 0 THEN Max(n + stop, 0) ELSE Min(stop, n)
  IN  lo..(hi - 1)

\* Width of the border the statistics leave out.
buffer == 10

\* magnitude[buffer:-buffer, buffer:-buffer], as the cells of the grid it
\* is a view of.
CoreCells == SliceIndices(ny, buffer, -buffer) \X SliceIndices(nx, buffer, -buffer)

\* range(start, stop, step), step > 0
RECURSIVE range(_, _, _)
range(start, stop, step) ==
  IF start >= stop THEN <<>> ELSE <<start>> \o range(start + step, stop, step)

\* Mutant: the obstacle test is left out.
Sampled_Everywhere(y, x) == TRUE

\* if not geodata['obstacle_mask'][y, x]
Sampled(y, x) == ~obstacle_mask[y][x]

Sample(y, x) ==
  [x |-> x, y |-> y,
   vx |-> Round(ux[y][x], config.OUTPUT_PRECISION),
   vy |-> Round(uy[y][x], config.OUTPUT_PRECISION),
   magnitude |-> Round(magnitude[y][x], config.OUTPUT_PRECISION)]

\* The inner loop over x, then the outer loop over y.
RECURSIVE RowSamples(_, _)
RowSamples(y, xs) ==
  IF xs = <<>> THEN <<>>
  ELSE (IF Sampled(y, Head(xs)) THEN <<Sample(y, Head(xs))>> ELSE <<>>)
       \o RowSamples(y, Tail(xs))

RECURSIVE GridSamples(_, _)
GridSamples(ys, stride) ==
  IF ys = <<>> THEN <<>>
  ELSE RowSamples(Head(ys), range(0, nx, stride)) \o GridSamples(Tail(ys), stride)

\* np.min, np.max, np.mean, np.std of a non-empty array (a function).
RECURSIVE SumOver(_, _)
SumOver(f, S) ==
  IF S = {} THEN 0
  ELSE LET e == CHOOSE e \in S : TRUE IN f[e] + SumOver(f, S \ {e})

MinOf(f) == CHOOSE v \in {f[e] : e \in DOMAIN f} : \A e \in DOMAIN f : v <= f[e]
MaxOf(f) == CHOOSE v \in {f[e] : e \in DOMAIN f} : \A e \in DOMAIN f : v >= f[e]
MeanOf(f) ==
  LET n == Cardinality(DOMAIN f)
  IN  (2 * SumOver(f, DOMAIN f) + n) \div (2 * n)
StdOf(f) ==
  LET m == MeanOf(f)
      sq == [e \in DOMAIN f |-> Mul(f[e] - m, f[e] - m)]
  IN  Sqrt(MeanOf(sq))

FlowStatistics(core) ==
  [min_magnitude  |-> Round(MinOf(core), config.OUTPUT_PRECISION),
   max_magnitude  |-> Round(MaxOf(core), config.OUTPUT_PRECISION),
   mean_magnitude |-> Round(MeanOf(core), config.OUTPUT_PRECISION),
   std_magnitude  |-> Round(StdOf(core), config.OUTPUT_PRECISION)]

\* The whole function.  The reductions of an empty slice raise ValueError.
ProcessResults ==
  /\ pc = "process"
  /\ core_magnitude' = [cell \in CoreCells |-> magnitude[cell[1]][cell[2]]]
  /\ vector_field' = GridSamples(range(0, ny, config.VECTOR_FIELD_STRIDE),
                                 config.VECTOR_FIELD_STRIDE)
  /\ results' =
       IF CoreCells = {} THEN "ValueError"
       ELSE [grid_properties |->
               [width |-> nx, height |-> ny,
                obstacle_count |->
                  Cardinality({cell \in Rows \X Cols : obstacle_mask[cell[1]][cell[2]]})],
             flow_statistics |-> FlowStatistics(core_magnitude'),
             vector_field |-> vector_field',
             magnitude_grid |->
               [j \in Rows |-> [i \in Cols |->
                  Round(magnitude[j][i], config.OUTPUT_PRECISION)]]]
  /\ pc' = IF CoreCells = {} THEN "raised" ELSE "processed"
  /\ UNCHANGED <<inputs, arr, F, F_streamed, rho, ux, uy, it, result, config, previous>>
  /\ UNCHANGED workers

\* Inputs of the result processing: grids smaller and larger than twice the
\* statistics' border, strides, configured buffer sizes, masks with obstacles
\* on and off the sampling grid, and two velocity fields.
ResultSizes == {3, MaxN, 2 * buffer + 2}
Strides == (1..MaxStride) \cup {VECTOR_FIELD_STRIDE}
BufferSizes == {0, 1, buffer, BUFFER_SIZE}
ResultObstacleSets ==
  { {}, {<<0, 0>>, <<2, 2>>},
    {<<0, 2>>, <<3, 3>>, <<5, 10>>, <<10, 5>>, <<11, 11>>, <<12, 12>>} }
VelocityPattern(h, wd, a) ==
  [j \in 0..(h - 1) |-> [i \in 0..(wd - 1) |->
     (((a * j + i) % 7) - 3) * (ONE \div 4)]]

InitResults ==
  \E h \in ResultSizes, wd \in ResultSizes, st \in Strides, b \in BufferSizes,
     obst \in ResultObstacleSets, a \in {1, 2} :
    /\ ny = h
    /\ nx = wd
    /\ obstacle_mask = Mask(h, wd, obst)
    /\ ux = VelocityPattern(h, wd, a)
    /\ uy = VelocityPattern(h, wd, a + 2)
    /\ config = [BUFFER_SIZE |-> b, OUTPUT_PRECISION |-> OUTPUT_PRECISION,
                 VECTOR_FIELD_STRIDE |-> st]
    /\ wind_deg = BaseInput.deg
    /\ wind_speed = BaseInput.speed
    /\ relaxation_rate = BaseInput.omega
    /\ max_iter = BaseInput.iters
    /\ arr = <<>>
    /\ F = 1
    /\ F_streamed = 2
    /\ rho = <<>>
    /\ it = max_iter
    /\ result = [ux_real |-> ux, uy_real |-> uy]
    /\ pc = "process"
    /\ core_magnitude = <<>>
    /\ vector_field = <<>>
    /\ results = <<>>
    /\ previous = <<>>
    /\ pending = {}
    /\ snap = <<>>
    /\ accesses = <<>>

SpecResults == InitResults /\ [][ProcessResults]_vars

\* C11: the vector field holds exactly one sample for every cell (y, x) of
\* the grid whose coordinates are both multiples of the stride and whose mask
\* entry is false, and nothing else: no sample lies on an obstacle cell and no
\* coordinate appears twice.
C11_VectorField ==
  pc \in {"processed", "raised"} =>
    LET at(n) == <<vector_field[n].y, vector_field[n].x>>
        sampled == {at(n) : n \in DOMAIN vector_field}
        stride == config.VECTOR_FIELD_STRIDE
    IN  /\ sampled = {cell \in (0..(ny - 1)) \X (0..(nx - 1)) :
                        /\ cell[1] % stride = 0
                        /\ cell[2] % stride = 0
                        /\ obstacle_mask[cell[1]][cell[2]] = FALSE}
        /\ \A n, m \in DOMAIN vector_field : at(n) = at(m) => n = m
        /\ \A n \in DOMAIN vector_field :
             obstacle_mask[vector_field[n].y][vector_field[n].x] = FALSE

\* A 22 x 22 grid sampled with stride 5: the obstacles at (5, 10) and (10, 5)
\* lie on the sampling grid and are skipped, the other 23 cells are sampled.
C11_Witness ==
  /\ pc = "processed"
  /\ ny = 2 * buffer + 2 /\ nx = 2 * buffer + 2
  /\ config.VECTOR_FIELD_STRIDE = VECTOR_FIELD_STRIDE
  /\ obstacle_mask[5][10] /\ obstacle_mask[10][5]
  /\ Len(vector_field) = 23
  /\ results.vector_field = vector_field

\* C13: for every configured buffer size b >= 0 and every grid with ny > 2b
\* and nx > 2b, the statistics are taken over exactly the cells (y, x) with
\* b <= y < ny - b and b <= x < nx - b, and over at least one cell.
C13_ConfiguredBuffer ==
  LET b == config.BUFFER_SIZE
  IN  (pc \in {"processed", "raised"} /\ b >= 0 /\ ny > 2 * b /\ nx > 2 * b) =>
        /\ pc = "processed"
        /\ DOMAIN core_magnitude =
             {cell \in (0..(ny - 1)) \X (0..(nx - 1)) :
                /\ b <= cell[1] /\ cell[1] < ny - b
                /\ b <= cell[2] /\ cell[2] < nx - b}
        /\ DOMAIN core_magnitude # {}

\* ------------------------------------------------------------ row workers
\* The sweeps marked prange (lines 341, 355, 375, 401, 414) hand each row j
\* to a worker; the workers of a sweep run in any order, and the statement
\* after the loop runs when all of them have finished.  A step is one
\* worker's row: it reads the shared arrays as they are at that moment and
\* writes its results into them.

ArrayName(a) == IF a = 1 THEN "F_1" ELSE "F_2"
RowCells(name, j) == {<<name, j, i>> : i \in Cols}

\* Mutant: streaming writes into the array it reads from.
StreamTarget_InPlace == F

\* F_streamed[j, i, k] = ...: the array the streaming sweep writes.
StreamTarget == F_streamed

\* The elements row j's worker reads (r) and writes (w) in each sweep.
StreamAccess(j) ==
  [r |-> {<<ArrayName(F), SourceIndex(j, cy(k), ny), SourceIndex(i, cx(k), nx)>> :
            i \in Cols, k \in Dirs},
   w |-> RowCells(ArrayName(StreamTarget), j)]
BounceAccess(j) ==
  LET hit == {<<ArrayName(F), j, i>> : i \in {x \in Cols : obstacle_mask[j][x]}}
  IN  [r |-> RowCells("obstacle_mask", j) \cup hit, w |-> hit]
MacroAccess(j) ==
  [r |-> RowCells(ArrayName(F), j),
   w |-> RowCells("rho", j) \cup RowCells("ux", j) \cup RowCells("uy", j)]
CollideAccess(j) ==
  [r |-> RowCells("rho", j) \cup RowCells("ux", j) \cup RowCells("uy", j)
           \cup RowCells(ArrayName(F), j),
   w |-> RowCells(ArrayName(F), j)]
ScaleAccess(j) ==
  [r |-> RowCells("ux", j) \cup RowCells("uy", j),
   w |-> RowCells("ux_real", j) \cup RowCells("uy_real", j)]

\* Row j's worker runs: the first worker of a sweep finds every row pending.
\* Its accesses are logged with its place (at) in the order the workers ran.
WorkerRuns(j, acc) ==
  LET entry == [r |-> acc.r, w |-> acc.w, at |-> Cardinality(Rows \ pending)]
  IN  /\ j \in pending
      /\ pending' = IF pending = {j} THEN Rows ELSE pending \ {j}
      /\ snap' = IF pending = Rows
                 THEN [arr |-> arr, rho |-> rho, ux |-> ux, uy |-> uy]
                 ELSE snap
      /\ accesses' = IF pending = Rows THEN (j :> entry) ELSE (j :> entry) @@ accesses

StreamRow(j) ==
  /\ pc = "stream"
  /\ WorkerRuns(j, StreamAccess(j))
  /\ arr' = [arr EXCEPT ![StreamTarget][j] = Streamed(arr[F])[j]]
  /\ IF pending = {j}
     THEN /\ F' = SwapBuffers(F, F_streamed)[1]
          /\ F_streamed' = SwapBuffers(F, F_streamed)[2]
          /\ pc' = "bounce"
     ELSE UNCHANGED <<F, F_streamed, pc>>
  /\ UNCHANGED <<inputs, rho, ux, uy, it, result, processing>>

BounceRow(j) ==
  /\ pc = "bounce"
  /\ WorkerRuns(j, BounceAccess(j))
  /\ arr' = [arr EXCEPT ![F][j] = BounceBack(arr[F])[j]]
  /\ pc' = IF pending = {j} THEN "outflow" ELSE pc
  /\ UNCHANGED <<inputs, F, F_streamed, rho, ux, uy, it, result, processing>>

MacroRow(j) ==
  /\ pc = "macro"
  /\ WorkerRuns(j, MacroAccess(j))
  /\ rho' = [rho EXCEPT ![j] = [i \in Cols |-> MacroCell(arr[F][j][i])[1]]]
  /\ ux' = [ux EXCEPT ![j] = [i \in Cols |-> MacroCell(arr[F][j][i])[2]]]
  /\ uy' = [uy EXCEPT ![j] = [i \in Cols |-> MacroCell(arr[F][j][i])[3]]]
  /\ pc' = IF pending = {j} THEN "inflow" ELSE pc
  /\ UNCHANGED <<inputs, arr, F, F_streamed, it, result, processing>>

CollideRow(j) ==
  /\ pc = "collide"
  /\ WorkerRuns(j, CollideAccess(j))
  /\ arr' = [arr EXCEPT ![F][j] = Collided(arr[F])[j]]
  /\ IF pending = {j}
     THEN /\ it' = it + 1
          /\ pc' = IF LoopContinues(it + 1, max_iter) THEN "stream" ELSE "scale"
     ELSE UNCHANGED <<it, pc>>
  /\ UNCHANGED <<inputs, F, F_streamed, rho, ux, uy, result, processing>>

\* ux_real, uy_real are np.empty until their rows are written.
ScaleRow(j) ==
  /\ pc = "scale"
  /\ WorkerRuns(j, ScaleAccess(j))
  /\ \E g \in Garbage :
       LET cur == IF pending = Rows
                  THEN [ux_real |-> Filled2(ny, nx, g), uy_real |-> Filled2(ny, nx, g)]
                  ELSE result
       IN  result' = [ux_real |-> [cur.ux_real EXCEPT ![j] = Scaled(ux)[j]],
                      uy_real |-> [cur.uy_real EXCEPT ![j] = Scaled(uy)[j]]]
  /\ pc' = IF pending = {j} THEN "done" ELSE pc
  /\ UNCHANGED <<inputs, arr, F, F_streamed, rho, ux, uy, it, processing>>

ParallelInputs ==
  [ny : 3..MaxN, nx : {3}, mh : {0}, mw : {0}, obst : {{}, {<<1, 1>>, <<2, 0>>}},
   deg : {0, 225}, speed : {5 * ONE}, omega : {(7 * ONE) \div 5},
   iters : 1..MaxIter]

InitParallel ==
  \E inp \in ParallelInputs, g \in Garbage :
    Setup(inp, Filled3(inp.ny, inp.nx, ONE), "stream", g)

NextParallel ==
  \/ \E j \in Rows : StreamRow(j)
  \/ \E j \in Rows : BounceRow(j)
  \/ OutflowStep
  \/ \E j \in Rows : MacroRow(j)
  \/ InflowStep
  \/ \E j \in Rows : CollideRow(j)
  \/ \E j \in Rows : ScaleRow(j)

SpecParallel == InitParallel /\ [][NextParallel]_vars

\* C12: in each of the four parallel sweeps no two row workers write the
\* same element and none reads an element another one writes, and whatever
\* order the workers run in, the arrays after the sweep are those the sweep
\* run row by row in order produces from the arrays it started with; the
\* field returned is then the scaled velocity the sequential run returns.
C12_SweepsDeterministic ==
  [][/\ \A j1, j2 \in DOMAIN accesses' :
          j1 # j2 =>
            /\ accesses'[j1].w \cap accesses'[j2].w = {}
            /\ accesses'[j1].r \cap accesses'[j2].w = {}
     /\ (pc = "stream" /\ pc' = "bounce") =>
          /\ arr' = [snap'.arr EXCEPT ![F_streamed] = Streamed(snap'.arr[F])]
          /\ F' = F_streamed /\ F_streamed' = F
          /\ rho' = snap'.rho /\ ux' = snap'.ux /\ uy' = snap'.uy
     /\ (pc = "bounce" /\ pc' = "outflow") =>
          /\ arr' = [snap'.arr EXCEPT ![F] = BounceBack(snap'.arr[F])]
          /\ rho' = snap'.rho /\ ux' = snap'.ux /\ uy' = snap'.uy
     /\ (pc = "macro" /\ pc' = "inflow") =>
          /\ arr' = snap'.arr
          /\ rho' = [j \in Rows |-> [i \in Cols |-> MacroCell(snap'.arr[F][j][i])[1]]]
          /\ ux' = [j \in Rows |-> [i \in Cols |-> MacroCell(snap'.arr[F][j][i])[2]]]
          /\ uy' = [j \in Rows |-> [i \in Cols |-> MacroCell(snap'.arr[F][j][i])[3]]]
     /\ (pc = "collide" /\ pc' # "collide") =>
          /\ rho = snap'.rho /\ ux = snap'.ux /\ uy = snap'.uy
          /\ arr' = [snap'.arr EXCEPT ![F] = Collided(snap'.arr[F])]
          /\ rho' = snap'.rho /\ ux' = snap'.ux /\ uy' = snap'.uy
     /\ pc' = "done" =>
          result' = [ux_real |-> Scaled(snap'.ux), uy_real |-> Scaled(snap'.uy)]
    ]_vars

\* The second iteration's collision sweep has finished on a four-row grid
\* with obstacles, its workers having run in the order 3, 1, 2, 0, and has
\* changed the populations.
C12_Witness ==
  /\ pc = "scale"
  /\ it = 2
  /\ ny = 4
  /\ obstacle_mask[1][1]
  /\ DOMAIN accesses = Rows
  /\ accesses[3].at = 0 /\ accesses[1].at = 1
  /\ accesses[2].at = 2 /\ accesses[0].at = 3
  /\ accesses[0].w = RowCells(ArrayName(F), 0)
  /\ snap.arr[F] # arr[F]

\* ----------------------------------------------------------- a second run
\* The solver called again with the same mask, direction and parameters and
\* another wind speed; what the first run held and returned is kept.
Speeds == {0, 2 * ONE, 5 * ONE}

RunAgain ==
  /\ pc = "done"
  /\ previous = <<>>
  /\ previous' = [wind_speed |-> wind_speed, ux |-> ux, uy |-> uy, result |-> result]
  /\ \E s \in Speeds \ {wind_speed}, g \in Garbage :
       /\ wind_speed' = s
       /\ arr' = [a \in {1, 2} |-> IF a = 1 THEN Filled3(ny, nx, ONE) ELSE Filled3(ny, nx, g)]
       /\ rho' = Filled2(ny, nx, g)
  /\ F' = 1
  /\ F_streamed' = 2
  /\ ux' = Filled2(ny, nx, 0)
  /\ uy' = Filled2(ny, nx, 0)
  /\ it' = 0
  /\ pc' = IF LoopContinues(0, max_iter) THEN "stream" ELSE "scale"
  /\ result' = <<>>
  /\ UNCHANGED <<obstacle_mask, wind_deg, nx, ny, max_iter, relaxation_rate>>
  /\ UNCHANGED <<config, core_magnitude, vector_field, results, workers>>

TwoRunInputs ==
  [ny : 3..MaxN, nx : 3..MaxN, mh : {0}, mw : {0}, obst : ObstacleSets,
   deg : {0, 135, 270}, speed : {0, 5 * ONE}, omega : {ONE, (7 * ONE) \div 5},
   iters : 1..MaxIter]

InitTwoRuns ==
  \E inp \in TwoRunInputs, g \in Garbage :
    Setup(inp, Filled3(inp.ny, inp.nx, ONE), "stream", g)

NextTwoRuns ==
  \/ Streaming
  \/ BounceBackStep
  \/ OutflowStep
  \/ Macroscopic
  \/ InflowStep
  \/ Collision
  \/ ScaleStep
  \/ RunAgain

SpecTwoRuns == InitTwoRuns /\ [][NextTwoRuns]_vars

\* C14: nothing is returned before the loop has finished; the scaling step
\* leaves the lattice (populations, density, velocity) as it is and returns,
\* for every cell, the lattice velocity times wind_speed / 0.1 (50 times it
\* for wind speed 5, zero for wind speed 0); and a run with another wind
\* speed ends with the same lattice velocity.
C14_ScaledOnce ==
  [][/\ pc' # "done" => result' = <<>>
     /\ pc = "scale" =>
          /\ arr' = arr /\ F' = F /\ F_streamed' = F_streamed
          /\ rho' = rho /\ ux' = ux /\ uy' = uy
          /\ pc' = "done"
          /\ \A j \in Rows, i \in Cols :
               /\ result'.ux_real[j][i] = Mul(ux[j][i], Div(wind_speed, ONE \div 10))
               /\ result'.uy_real[j][i] = Mul(uy[j][i], Div(wind_speed, ONE \div 10))
               /\ wind_speed = 5 * ONE =>
                    /\ result'.ux_real[j][i] = 50 * ux[j][i]
                    /\ result'.uy_real[j][i] = 50 * uy[j][i]
               /\ wind_speed = 0 =>
                    /\ result'.ux_real[j][i] = 0
                    /\ result'.uy_real[j][i] = 0
     /\ (pc' = "done" /\ previous' # <<>>) =>
          /\ wind_speed' # previous'.wind_speed
          /\ ux' = previous'.ux
          /\ uy' = previous'.uy
    ]_vars

\* A first run with wind speed 0 returned an all-zero field; the second run,
\* with wind speed 5, holds the same non-zero lattice velocity and has
\* returned 50 times it.
C14_Witness ==
  /\ pc = "done"
  /\ previous # <<>>
  /\ previous.wind_speed = 0
  /\ wind_speed = 5 * ONE
  /\ max_iter = 2
  /\ \A j \in Rows, i \in Cols : previous.result.ux_real[j][i] = 0
  /\ \E j \in Rows, i \in Cols :
       /\ ux[j][i] # 0
       /\ ~OnInlet(j, i)
       /\ result.ux_real[j][i] = 50 * ux[j][i]
       /\ previous.ux[j][i] = ux[j][i]

\* C15: a run of at least one iteration returns, at every cell of the inlet
\* edge of its direction (obstacle cells included), the inlet velocity times
\* wind_speed / 0.1, whatever the mask and the relaxation rate; the collision
\* step changes neither velocity component nor the density.
C15_InletReturned ==
  [][/\ pc = "collide" => (ux' = ux /\ uy' = uy /\ rho' = rho)
     /\ (pc' = "done" /\ max_iter >= 1 /\ 0 <= wind_deg /\ wind_deg < 360) =>
          \A j \in Rows, i \in Cols :
            C5_Edge(j, i) =>
              /\ result'.ux_real[j][i] =
                   Mul(Mul(CosDeg(90 - wind_deg), ONE \div 10),
                       Div(wind_speed, ONE \div 10))
              /\ result'.uy_real[j][i] =
                   Mul(Mul(SinDeg(90 - wind_deg), ONE \div 10),
                       Div(wind_speed, ONE \div 10))
    ]_vars

\* Two iterations with wind from 30 degrees at speed 5 and relaxation rate
\* 1.4: the obstacle cell (0, 0) of the inlet row holds the scaled inlet
\* velocity (2.5, 4.33) while the collision has changed the populations.
C15_Witness ==
  /\ pc = "done"
  /\ max_iter = 2
  /\ wind_deg = 30
  /\ wind_speed = 5 * ONE
  /\ relaxation_rate = (7 * ONE) \div 5
  /\ obstacle_mask[0][0]
  /\ result.ux_real[0][0] = 50 * vel_x_sim
  /\ result.uy_real[0][0] = 50 * vel_y_sim
  /\ result.ux_real[0][0] # 0
  /\ arr[F][0][0] # [k \in Dirs |-> ONE]
====
